---- MODULE Spec2Model ----
(***************************************************************************)
(* build_pdf_report of src/app.py: the manual pagination of the            *)
(* watermarked PDF report.                                                 *)
(*                                                                         *)
(* Lengths are in hundredths of an inch (inch = 72 points in ReportLab, so *)
(* 0.18*inch is 18 here); the vertical position y grows upwards from the   *)
(* page bottom, as on a ReportLab canvas.  Text is a sequence of code      *)
(* points.  The canvas is the sequence `ops` of the operations issued on   *)
(* it, in order.                                                           *)
(*                                                                         *)
(* The two for-loops read the caller's list one element at a time and      *)
(* nothing in the function looks ahead.  Under Spec the list is open: the  *)
(* model draws each element when the loop reaches it and records it in     *)
(* `sections`, so that once pc = "done" `sections` is the argument the     *)
(* call was made with.  Under SpecDefault and SpecTwice the whole list is  *)
(* fixed in the initial state and the loops walk through it.               *)
(***************************************************************************)
EXTENDS Integers, Sequences, FiniteSets, TLC

\* ---------------------------------------------------------------- bounds

\* Sections of one document, under Spec.
MaxSections == 8
\* Bullets of one document, all sections together, under Spec.
MaxBullets == 2
\* Sections of a document of the default shape, under SpecDefault.
MaxDefaultSections == 17
\* Sections and bullets (all sections together) of a document rendered
\* twice, under SpecTwice.
MaxTwiceSections == 2
MaxTwiceBullets == 2
\* The clock stops after this many half minutes.
MaxClock == 3

\* ------------------------------------------------------ program constants

\* letter page height, 11 inch
page_h == 1100
\* y = page_h - 0.9*inch
TopOffset == 90
\* y -= 0.35*inch after the title
TitleStep == 35
\* y -= 0.30*inch after the subtitle
SubtitleStep == 30
\* if y < 1.3*inch before a heading
HeadingLimit == 130
\* y -= 0.22*inch after a heading
HeadingStep == 22
\* if y < 1.1*inch before a bullet
BulletLimit == 110
\* max_chars = 110
max_chars == 110
\* y -= 0.18*inch after a wrapped line
LineStep == 18
\* y -= 0.12*inch after a section
SectionGap == 12
\* the footer baseline, 0.45*inch
FooterY == 45
\* U+2022, the bullet glyph of f"• {b}"
Glyph == 8226
\* U+0020, the space after the glyph
Space == 32

\* ----------------------------------------------------------------- inputs

\* The i-th character of a test string: every position carries its own code
\* point, so a character dropped, repeated or moved shows in the result.
CharAt(i) == 256 + i

StringOfLen(n) == [i \in 1..n |-> CharAt(i)]

\* Bullet lengths a caller passes: the empty bullet, 1,000 characters (ten
\* wrapped lines, the last one partial) and 3,518 characters (with the
\* prefix exactly 32 full lines).
BulletLens == {0, 1000, 3518}

BulletPool == {StringOfLen(n) : n \in BulletLens}

\* "T" and "W"
Titles == {<<84>>}
WatermarkTexts == {<<87>>}

\* The heading of the i-th section: "H" and a letter.
HeadingOf(i) == <<72, 64 + i>>

\* "Pilot Proposal - Six Sigma Black Belt format - DMAIC governed",
\* abbreviated to its first character.
Subtitle == <<80>>

\* Documents of at most S sections and at most T bullets in all, the bullets
\* taken from Pool.
TotalBullets(bl) ==
    LET RECURSIVE Sum(_)
        Sum(i) == IF i = 0 THEN 0 ELSE Len(bl[i]) + Sum(i - 1)
    IN Sum(Len(bl))

BulletLists(T, Pool) == UNION {[1..n -> Pool] : n \in 0..T}

Docs(S, T, Pool) ==
    { [i \in 1..Len(bl) |-> [heading |-> HeadingOf(i), bullets |-> bl[i]]] :
        bl \in { l \in UNION {[1..n -> BulletLists(T, Pool)] : n \in 0..S} :
                    TotalBullets(l) <= T } }

\* Rendered twice: the empty bullet and one of 5,168 characters (47 lines,
\* more than the first page holds under the heading).
TwiceLens == {0, 5168}

TwiceDocs ==
    Docs(MaxTwiceSections, MaxTwiceBullets, {StringOfLen(n) : n \in TwiceLens})

\* The shape of the dashboard's default content as the specification
\* describes it: every section has 4 bullets and every bullet fits one
\* wrapped line.  The four bullets of the first section recur in the others.
OneLineLens == {0, 108}

DefaultDocs ==
    { [i \in 1..n |-> [heading |-> HeadingOf(i), bullets |-> q]] :
        n \in 0..MaxDefaultSections,
        q \in [1..4 -> {StringOfLen(l) : l \in OneLineLens}] }

VARIABLES
    pc,              \* position in build_pdf_report
    title,           \* argument title
    watermark_text,  \* argument watermark_text
    sections,        \* argument sections, as far as it is known
    open,            \* TRUE: the list may go on after the part known
    si,              \* the section the outer loop is at (0 before the first)
    bi,              \* the bullet the inner loop is at (0 before the first)
    y,               \* the cursor
    page,            \* number of the page being drawn
    ops,             \* operations issued on the canvas
    now,             \* the clock datetime.now() reads, in minutes
    call,            \* 1 during the first call, 2 during a repeated one
    prev             \* the canvas of the first call, once it is over

vars == <<pc, title, watermark_text, sections, open, si, bi, y, page, ops,
          now, call, prev>>

args == <<title, watermark_text, open>>
env == <<now, call, prev>>

\* ------------------------------------------------------------ operations

Min(a, b) == IF a < b THEN a ELSE b

\* pdf_watermark: one centred, rotated string in the middle of the page.
pdf_watermark(text, p) ==
    [op |-> "watermark", page |-> p, y |-> page_h \div 2, text |-> text]

\* datetime.now().strftime("%Y-%m-%d %H:%M"): the minute, the seconds dropped.
Timestamp(t) == t \div 2

\* A footer that writes the time into the text on the left.
pdf_footer_TimeInText(text, p, t) ==
    [op |-> "footer", page |-> p, y |-> FooterY,
     text |-> text \o <<Timestamp(t)>>, ts |-> Timestamp(t)]

\* pdf_footer: the text on the left and the timestamp on the right of the
\* footer baseline.
pdf_footer(text, p, t) ==
    [op |-> "footer", page |-> p, y |-> FooterY, text |-> text,
     ts |-> Timestamp(t)]

\* new_page: c.showPage()
new_page(p) == [op |-> "showPage", page |-> p, y |-> 0, text |-> <<>>]

\* Wrap with the slice one character short: text[i:i+max_chars-1].
Wrap_ShortSlice(text) ==
    [k \in 1..((Len(text) + max_chars - 1) \div max_chars) |->
        SubSeq(text, (k - 1) * max_chars + 1,
               Min(k * max_chars - 1, Len(text)))]

\* lines = [text[i:i+max_chars] for i in range(0, len(text), max_chars)]
Wrap(text) ==
    [k \in 1..((Len(text) + max_chars - 1) \div max_chars) |->
        SubSeq(text, (k - 1) * max_chars + 1, Min(k * max_chars, Len(text)))]

\* The bullet without its prefix: text = b.
BulletText_NoPrefix(b) == b

\* text = f"• {b}"
BulletText(b) == <<Glyph, Space>> \o b

\* A page break that forgets the watermark of the new page.
PageBreak_NoWatermark ==
    /\ ops' = ops \o << pdf_footer(watermark_text, page, now),
                        new_page(page) >>
    /\ page' = page + 1
    /\ y' = page_h - TopOffset

\* A page break that draws the watermark before c.showPage().
PageBreak_WatermarkFirst ==
    /\ ops' = ops \o << pdf_footer(watermark_text, page, now),
                        pdf_watermark(watermark_text, page),
                        new_page(page) >>
    /\ page' = page + 1
    /\ y' = page_h - TopOffset

\* A page break that leaves the cursor where it was.
PageBreak_NoReset ==
    /\ ops' = ops \o << pdf_footer(watermark_text, page, now),
                        new_page(page),
                        pdf_watermark(watermark_text, page + 1) >>
    /\ page' = page + 1
    /\ y' = y

\* The footer, the page break, the cursor reset and the watermark of the
\* new page (the body of both `if y < ...` blocks).
PageBreak ==
    /\ ops' = ops \o << pdf_footer(watermark_text, page, now),
                        new_page(page),
                        pdf_watermark(watermark_text, page + 1) >>
    /\ page' = page + 1
    /\ y' = page_h - TopOffset

\* The state at the entry of build_pdf_report: y = page_h - 0.9*inch.
Entry ==
    /\ pc = "page1"
    /\ title \in Titles
    /\ watermark_text \in WatermarkTexts
    /\ si = 0
    /\ bi = 0
    /\ y = page_h - TopOffset
    /\ page = 1
    /\ ops = <<>>
    /\ now = 0
    /\ call = 1
    /\ prev = <<>>

Init ==
    /\ Entry
    /\ open = TRUE
    /\ sections = <<>>

InitDefault ==
    /\ Entry
    /\ open = FALSE
    /\ sections \in DefaultDocs

InitTwice ==
    /\ Entry
    /\ open = FALSE
    /\ sections \in TwiceDocs

\* PAGE 1: watermark, title, subtitle.
Page1 ==
    /\ pc = "page1"
    /\ ops' = << pdf_watermark(watermark_text, page),
                 [op |-> "title", page |-> page, y |-> y, text |-> title],
                 [op |-> "subtitle", page |-> page, y |-> y - TitleStep,
                  text |-> Subtitle] >>
    /\ y' = y - TitleStep - SubtitleStep
    /\ pc' = "for_section"
    /\ UNCHANGED <<args, sections, si, bi, page, env>>

NumBullets(secs) ==
    LET RECURSIVE Sum(_)
        Sum(i) == IF i = 0 THEN 0 ELSE Len(secs[i].bullets) + Sum(i - 1)
    IN Sum(Len(secs))

\* for heading, bullets in sections: the list has a next section.  A cursor
\* exactly on the threshold is left out: there the comparison of the
\* floating-point y is decided by the rounding accumulated on the way.
NextSection ==
    /\ pc = "for_section"
    /\ y # HeadingLimit
    /\ IF si < Len(sections)
       THEN UNCHANGED sections
       ELSE /\ open
            /\ Len(sections) < MaxSections
            /\ sections' = Append(sections,
                                  [heading |-> HeadingOf(Len(sections) + 1),
                                   bullets |-> <<>>])
    /\ si' = si + 1
    /\ bi' = 0
    /\ pc' = "heading_check"
    /\ UNCHANGED <<args, y, page, ops, env>>

\* The heading check with the comparison turned round: if y > 1.3*inch.
HeadingBreak_Inverted ==
    /\ pc = "heading_check"
    /\ y > HeadingLimit
    /\ PageBreak
    /\ pc' = "heading"
    /\ UNCHANGED <<args, sections, si, bi, env>>

\* if y < 1.3*inch: footer, new page, cursor reset, watermark.
HeadingBreak ==
    /\ pc = "heading_check"
    /\ y < HeadingLimit
    /\ PageBreak
    /\ pc' = "heading"
    /\ UNCHANGED <<args, sections, si, bi, env>>

\* The heading drawn without the cursor moving on.
DrawHeading_NoAdvance ==
    /\ \/ pc = "heading"
       \/ pc = "heading_check" /\ ~(y < HeadingLimit)
    /\ ops' = Append(ops, [op |-> "heading", page |-> page, y |-> y,
                           text |-> sections[si].heading, sec |-> si])
    /\ y' = y
    /\ pc' = "for_bullet"
    /\ UNCHANGED <<args, sections, si, bi, page, env>>

\* c.drawString(margin_x, y, heading); y -= 0.22*inch
DrawHeading ==
    /\ \/ pc = "heading"
       \/ pc = "heading_check" /\ ~(y < HeadingLimit)
    /\ ops' = Append(ops, [op |-> "heading", page |-> page, y |-> y,
                           text |-> sections[si].heading, sec |-> si])
    /\ y' = y - HeadingStep
    /\ pc' = "for_bullet"
    /\ UNCHANGED <<args, sections, si, bi, page, env>>

\* for b in bullets: the section has a next bullet.  A cursor exactly on the
\* threshold is left out, as in NextSection.
NextBullet ==
    /\ pc = "for_bullet"
    /\ y # BulletLimit
    /\ IF bi < Len(sections[si].bullets)
       THEN UNCHANGED sections
       ELSE /\ open
            /\ NumBullets(sections) < MaxBullets
            /\ \E b \in BulletPool :
                  sections' = [sections EXCEPT ![si].bullets = Append(@, b)]
    /\ bi' = bi + 1
    /\ pc' = "bullet_check"
    /\ UNCHANGED <<args, si, y, page, ops, env>>

\* if y < 1.1*inch: footer, new page, cursor reset, watermark.
BulletBreak ==
    /\ pc = "bullet_check"
    /\ y < BulletLimit
    /\ PageBreak
    /\ pc' = "bullet"
    /\ UNCHANGED <<args, sections, si, bi, env>>

\* The loop with the page-break check made before every line: the lines
\* that would fall below 1.1 inch go to the next page, from the top offset.
DrawLines_CheckPerLine(lines, s, j, p, y0) ==
    LET fit == Cardinality({k \in 1..Len(lines) :
                              y0 - (k - 1) * LineStep >= BulletLimit})
    IN [k \in 1..Len(lines) |->
           [op |-> "line",
            page |-> IF k <= fit THEN p ELSE p + 1,
            y |-> IF k <= fit THEN y0 - (k - 1) * LineStep
                  ELSE page_h - TopOffset - (k - fit - 1) * LineStep,
            text |-> lines[k], sec |-> s, bul |-> j]]

\* for line in lines: c.drawString(margin_x, y, line); y -= 0.18*inch
DrawLines(lines, s, j, p, y0) ==
    [k \in 1..Len(lines) |->
        [op |-> "line", page |-> p, y |-> y0 - (k - 1) * LineStep,
         text |-> lines[k], sec |-> s, bul |-> j]]

\* The body of `for b in bullets` after the page-break check: the prefix,
\* the wrapping and the loop that draws the lines.
DrawBullet ==
    /\ \/ pc = "bullet"
       \/ pc = "bullet_check" /\ ~(y < BulletLimit)
    /\ LET lines == Wrap(BulletText(sections[si].bullets[bi]))
       IN /\ ops' = ops \o DrawLines(lines, si, bi, page, y)
          /\ y' = y - Len(lines) * LineStep
    /\ pc' = "for_bullet"
    /\ UNCHANGED <<args, sections, si, bi, page, env>>

\* The bullets of the section are exhausted: y -= 0.12*inch
EndSection ==
    /\ pc = "for_bullet"
    /\ bi = Len(sections[si].bullets)
    /\ y' = y - SectionGap
    /\ pc' = "for_section"
    /\ UNCHANGED <<args, sections, si, bi, page, ops, env>>

\* The document saved without the footer of the last page.
Finish_NoFooter ==
    /\ pc = "for_section"
    /\ si = Len(sections)
    /\ ops' = Append(ops, [op |-> "save", page |-> page, y |-> 0,
                           text |-> <<>>])
    /\ pc' = "done"
    /\ UNCHANGED <<args, sections, si, bi, y, page, env>>

\* The sections are exhausted: pdf_footer(...); c.save()
Finish ==
    /\ pc = "for_section"
    /\ si = Len(sections)
    /\ ops' = ops \o << pdf_footer(watermark_text, page, now),
                        [op |-> "save", page |-> page, y |-> 0,
                         text |-> <<>>] >>
    /\ pc' = "done"
    /\ UNCHANGED <<args, sections, si, bi, y, page, env>>

\* Time passes.
Tick ==
    /\ now < MaxClock
    /\ now' = now + 1
    /\ UNCHANGED <<pc, args, sections, si, bi, y, page, ops, call, prev>>

\* The caller calls build_pdf_report again with the same arguments.
SecondCall ==
    /\ pc = "done"
    /\ call = 1
    /\ call' = 2
    /\ prev' = ops
    /\ pc' = "page1"
    /\ si' = 0
    /\ bi' = 0
    /\ y' = page_h - TopOffset
    /\ page' = 1
    /\ ops' = <<>>
    /\ open' = FALSE
    /\ UNCHANGED <<title, watermark_text, sections, now>>

Next ==
    \/ Page1
    \/ NextSection
    \/ HeadingBreak
    \/ DrawHeading
    \/ NextBullet
    \/ BulletBreak
    \/ DrawBullet
    \/ EndSection
    \/ Finish

NextTwice ==
    \/ Next
    \/ Tick
    \/ SecondCall

Spec == Init /\ [][Next]_vars

SpecDefault == InitDefault /\ [][Next]_vars

SpecTwice == InitTwice /\ [][NextTwice]_vars

\* ---------------------------------------------------------------- claims

\* Number of operations of one kind issued on page p.
CountOps(kind, p) ==
    Cardinality({i \in 1..Len(ops) : ops[i].op = kind /\ ops[i].page = p})

\* Bullet j of section s has been drawn.
Drawn(s, j) ==
    \/ s < si
    \/ s = si /\ j < bi
    \/ s = si /\ j = bi /\ j > 0 /\ pc \in {"for_bullet", "for_section", "done"}

\* The wrapped lines drawn for bullet j of section s, in draw order.
LinesOf(s, j) ==
    SelectSeq(ops, LAMBDA o : o.op = "line" /\ o.sec = s /\ o.bul = j)

RECURSIVE Concat(_)
Concat(ls) == IF ls = <<>> THEN <<>> ELSE Head(ls).text \o Concat(Tail(ls))

\* Number of lines of ls that have n characters.
CountLen(ls, n) == Cardinality({k \in 1..Len(ls) : Len(ls[k].text) = n})

\* C1: every page of the document carries exactly one watermark and exactly
\* one footer: the pages already emitted at any time, and all pages, the
\* last one included, once the document is saved; the document has as many
\* pages as page breaks plus one.
C1_OneWatermarkOneFooterPerPage ==
    /\ \A i \in 1..Len(ops) : ops[i].page \in 1..page
    /\ \A p \in 1..(page - 1) :
          /\ CountOps("watermark", p) = 1
          /\ CountOps("footer", p) = 1
          /\ CountOps("showPage", p) = 1
    /\ pc = "done" =>
          /\ CountOps("watermark", page) = 1
          /\ CountOps("footer", page) = 1
          /\ CountOps("save", page) = 1
          /\ CountOps("showPage", page) = 0

\* A saved document whose second page was opened by the page break before a
\* bullet.
C1_Witness ==
    /\ pc = "done"
    /\ page >= 2
    /\ \E i \in 1..Len(ops) :
          /\ ops[i].op = "watermark"
          /\ ops[i].page = 2
          /\ ops[i + 1].op = "line"

\* C2: no heading is drawn below 1.3 inch and no wrapped line of a bullet,
\* first or continuation, is drawn below 1.1 inch.
C2_NoLineBelowThreshold ==
    \A i \in 1..Len(ops) :
        /\ ops[i].op = "heading" => ops[i].y >= HeadingLimit
        /\ ops[i].op = "line" => ops[i].y >= BulletLimit

\* C3: once the document is saved, the lines drawn for every bullet b,
\* concatenated in draw order, are "• " followed by b; every line but the
\* last has 110 characters and the last has 1 to 110.
C3_WrappedLinesAreTheBullet ==
    pc = "done" =>
        \A s \in 1..Len(sections) : \A j \in 1..Len(sections[s].bullets) :
            LET ls == LinesOf(s, j)
            IN /\ Concat(ls) = <<Glyph, Space>> \o sections[s].bullets[j]
               /\ Len(ls) >= 1
               /\ \A k \in 1..(Len(ls) - 1) : Len(ls[k].text) = 110
               /\ Len(ls[Len(ls)].text) \in 1..110

\* A saved document with a bullet of several lines whose last line is
\* partial and with the empty bullet.
C3_Witness ==
    /\ pc = "done"
    /\ \E s \in 1..Len(sections) : \E j \in 1..Len(sections[s].bullets) :
          /\ Len(LinesOf(s, j)) > 1
          /\ Len(sections[s].bullets[j]) % 110 # 108
    /\ \E s \in 1..Len(sections) : \E j \in 1..Len(sections[s].bullets) :
          sections[s].bullets[j] = <<>>

\* C4 as stated: a bullet of 1,000 characters is drawn as 10 lines, 9 of 110
\* characters and 1 of 10.
C4_ThousandCharsLastLineTen ==
    \A s \in 1..Len(sections) : \A j \in 1..Len(sections[s].bullets) :
        Drawn(s, j) /\ Len(sections[s].bullets[j]) = 1000 =>
            LET ls == LinesOf(s, j)
            IN /\ Len(ls) = 10
               /\ CountLen(ls, 110) = 9
               /\ CountLen(ls, 10) = 1

\* C4 as amended: a bullet of 1,000 characters is drawn as 10 lines, the
\* first 9 of 110 characters and the last of 12, the prefix "• " having made
\* the wrapped text 1,002 characters long.
C4_ThousandCharsLastLineTwelve ==
    \A s \in 1..Len(sections) : \A j \in 1..Len(sections[s].bullets) :
        Drawn(s, j) /\ Len(sections[s].bullets[j]) = 1000 =>
            LET ls == LinesOf(s, j)
            IN /\ Len(ls) = 10
               /\ \A k \in 1..9 : Len(ls[k].text) = 110
               /\ Len(ls[10].text) = 12

\* A bullet of 1,000 characters has been drawn.
C4_Witness ==
    \E s \in 1..Len(sections) : \E j \in 1..Len(sections[s].bullets) :
        /\ Drawn(s, j)
        /\ Len(sections[s].bullets[j]) = 1000
        /\ Len(LinesOf(s, j)) > 0

\* The document has the shape of the default content: 6 sections of 4
\* bullets, every bullet of at most 108 characters.
DefaultShape ==
    /\ Len(sections) = 6
    /\ \A s \in 1..6 :
          /\ Len(sections[s].bullets) = 4
          /\ \A j \in 1..4 : Len(sections[s].bullets[j]) <= 108

\* C5 as stated: a saved document of the default shape spans more than one
\* page.
C5_DefaultShapeSeveralPages ==
    pc = "done" /\ DefaultShape => page > 1

\* C5 as amended: a saved document of the default shape has exactly one
\* page and no page break.
C5_DefaultShapeOnePage ==
    pc = "done" /\ DefaultShape =>
        /\ page = 1
        /\ \A i \in 1..Len(ops) : ops[i].op # "showPage" /\ ops[i].page = 1

\* A saved document of the default shape, all its 24 bullets drawn.
C5_Witness ==
    /\ pc = "done"
    /\ DefaultShape
    /\ Cardinality({i \in 1..Len(ops) : ops[i].op = "line"}) = 24

\* C6: with an empty section list the saved document has one page and its
\* operations are the watermark, the title, the subtitle and the footer, in
\* this order, then the save: no heading, no bullet line, no page break.
C6_EmptySectionsOnePage ==
    pc = "done" /\ sections = <<>> =>
        /\ page = 1
        /\ [i \in 1..Len(ops) |-> ops[i].op]
              = <<"watermark", "title", "subtitle", "footer", "save">>
        /\ \A i \in 1..Len(ops) : ops[i].page = 1
        /\ ops[1].text = watermark_text
        /\ ops[2].text = title
        /\ ops[3].text = Subtitle
        /\ ops[4].text = watermark_text

\* The document of an empty section list, a non-empty title and a non-empty
\* watermark text is saved.
C6_Witness ==
    /\ pc = "done"
    /\ sections = <<>>
    /\ title # <<>>
    /\ watermark_text # <<>>
    /\ ops # <<>>

\* The canvas with the timestamp of every footer blanked.
NoTimestamps(os) ==
    [i \in 1..Len(os) |->
        IF os[i].op = "footer" THEN [os[i] EXCEPT !.ts = 0] ELSE os[i]]

\* C7: the second call with the same arguments issues the operations of the
\* first, with the same text, position and page, but for the timestamps of
\* the footers.
C7_SameOutputButTimestamp ==
    /\ call = 2 =>
          /\ Len(ops) <= Len(prev)
          /\ NoTimestamps(ops) = SubSeq(NoTimestamps(prev), 1, Len(ops))
    /\ call = 2 /\ pc = "done" => NoTimestamps(ops) = NoTimestamps(prev)

\* The second call is over, its document has several pages and a footer
\* timestamp that differs from the one of the first call.
C7_Witness ==
    /\ call = 2
    /\ pc = "done"
    /\ page >= 2
    /\ ops # prev

\* C8: every page break is the footer on the current page, the page
\* emitted, the cursor at the top offset and the watermark on the new page,
\* in this order; the first operation of every page after the first is the
\* watermark and the first heading or bullet line of that page is at the
\* top offset.
C8_PageBreakProtocol ==
    /\ \A i \in 1..Len(ops) :
          ops[i].op = "showPage" =>
              /\ i > 1
              /\ ops[i - 1].op = "footer"
              /\ ops[i - 1].page = ops[i].page
              /\ i < Len(ops)
              /\ ops[i + 1].op = "watermark"
              /\ ops[i + 1].page = ops[i].page + 1
              /\ i + 2 <= Len(ops) =>
                    /\ ops[i + 2].op \in {"heading", "line"}
                    /\ ops[i + 2].page = ops[i].page + 1
                    /\ ops[i + 2].y = page_h - TopOffset
    /\ \A i \in 2..Len(ops) :
          ops[i].page # ops[i - 1].page =>
              /\ ops[i - 1].op = "showPage"
              /\ ops[i].op = "watermark"
              /\ ops[i].page = ops[i - 1].page + 1
    /\ Cardinality({i \in 1..Len(ops) : ops[i].op = "showPage"}) = page - 1
    /\ pc \in {"heading", "bullet"} => y = page_h - TopOffset

\* A page opened by the page break before a heading, the heading drawn.
C8_Witness ==
    \E i \in 1..Len(ops) :
        /\ ops[i].op = "showPage"
        /\ i + 2 <= Len(ops)
        /\ ops[i + 2].op = "heading"

\* The title, the subtitle, the headings and the bullet lines, in draw order.
Content ==
    SelectSeq(ops, LAMBDA o : o.op \in {"title", "subtitle", "heading", "line"})

\* The place of a heading or a bullet line in the input: the section, and
\* the bullet (0 for the heading).
SecOf(o) == o.sec
BulOf(o) == IF o.op = "heading" THEN 0 ELSE o.bul

\* C9: the title and the subtitle come first; the headings and the bullet
\* lines follow in input order, a heading before the lines of its bullets;
\* every heading and every bullet is drawn exactly once; on a page, every
\* content line is strictly below the one drawn before it.
C9_InputOrderTopToBottom ==
    LET c == Content
    IN /\ Len(c) >= 1 => c[1].op = "title" /\ c[1].text = title
       /\ Len(c) >= 2 => c[2].op = "subtitle" /\ c[2].text = Subtitle
       /\ \A k \in 3..Len(c) : c[k].op \in {"heading", "line"}
       /\ \A k \in 3..(Len(c) - 1) :
             \/ SecOf(c[k]) < SecOf(c[k + 1])
             \/ /\ SecOf(c[k]) = SecOf(c[k + 1])
                /\ BulOf(c[k]) <= BulOf(c[k + 1])
                /\ c[k + 1].op = "line"
       /\ \A k \in 1..(Len(c) - 1) :
             c[k].page = c[k + 1].page => c[k].y > c[k + 1].y
       /\ pc = "done" =>
             \A s \in 1..Len(sections) :
                /\ \E k \in 1..Len(c) :
                      /\ c[k].op = "heading"
                      /\ c[k].sec = s
                      /\ c[k].text = sections[s].heading
                      /\ \A m \in 1..Len(c) :
                            c[m].op = "heading" /\ c[m].sec = s => m = k
                /\ \A j \in 1..Len(sections[s].bullets) :
                      Cardinality({k \in 1..Len(c) :
                                     /\ c[k].op = "line"
                                     /\ c[k].sec = s
                                     /\ c[k].bul = j
                                     /\ c[k].text[1] = Glyph}) = 1
       /\ \A k \in 3..Len(c) :
             /\ SecOf(c[k]) \in 1..si
             /\ BulOf(c[k]) \in 0..Len(sections[SecOf(c[k])].bullets)

\* A saved document of several sections, one of them with two bullets.
C9_Witness ==
    /\ pc = "done"
    /\ Len(sections) >= 3
    /\ Len(sections[2].bullets) = 2
    /\ Len(Content) > 6

\* The heading drawn for section s.
HeadingOp(s) ==
    LET hs == SelectSeq(ops, LAMBDA o : o.op = "heading" /\ o.sec = s)
    IN hs[1]

\* C10 as stated: the first line of the first bullet of a section is on the
\* page of the section's heading.
C10_FirstBulletOnHeadingPage ==
    \A s \in 1..si :
        LinesOf(s, 1) # <<>> => LinesOf(s, 1)[1].page = HeadingOp(s).page

\* C10 as amended: the first line of the first bullet is on the page of the
\* heading, 0.22 inch below it, when the heading is more than 1.32 inch
\* above the bottom (0.22 inch lower is still above the 1.1 inch of the
\* bullet check); under a heading less than 1.32 inch above the bottom the
\* page breaks and the first line is at the top offset of the next page.
C10_FirstBulletPage ==
    \A s \in 1..si :
        LinesOf(s, 1) # <<>> =>
            LET h == HeadingOp(s)
                l == LinesOf(s, 1)[1]
            IN /\ h.y - HeadingStep > BulletLimit =>
                     l.page = h.page /\ l.y = h.y - HeadingStep
               /\ h.y - HeadingStep < BulletLimit =>
                     l.page = h.page + 1 /\ l.y = page_h - TopOffset

\* A heading drawn less than 1.32 inch above the bottom and the first
\* bullet of its section drawn.
C10_Witness ==
    \E s \in 1..si :
        /\ LinesOf(s, 1) # <<>>
        /\ HeadingOp(s).y < HeadingStep + BulletLimit

\* C11: the wrapped lines of one bullet are drawn one after the other with
\* no page break and no other operation between them, all on one page, each
\* 0.18 inch below the one before, however many they are and however low
\* they get.
C11_BulletLinesOnOnePage ==
    /\ \A s \in 1..si : \A j \in 1..Len(sections[s].bullets) :
          LET ls == LinesOf(s, j)
          IN \A k \in 1..(Len(ls) - 1) :
                /\ ls[k + 1].page = ls[k].page
                /\ ls[k + 1].y = ls[k].y - LineStep
    /\ \A i \in 1..Len(ops) : \A m \in 1..Len(ops) :
          /\ i < m
          /\ ops[i].op = "line"
          /\ ops[m].op = "line"
          /\ ops[i].sec = ops[m].sec
          /\ ops[i].bul = ops[m].bul
          => /\ ops[i + 1].op = "line"
             /\ ops[i + 1].sec = ops[i].sec
             /\ ops[i + 1].bul = ops[i].bul

\* A bullet of 32 lines drawn, its last lines below 1.1 inch, where a check
\* before each line would have broken the page.
C11_Witness ==
    \E s \in 1..si : \E j \in 1..Len(sections[s].bullets) :
        LET ls == LinesOf(s, j)
        IN /\ Len(ls) = 32
           /\ ls[1].y >= BulletLimit
           /\ ls[32].y < BulletLimit

====
